---- MODULE Spec2Model ----
(***************************************************************************)
(* The chat-over-WebSocket gateway of src/src/chat/websocket.py as a state *)
(* machine: the connection registry (ConnectionManager), the per-          *)
(* connection handler handle_chat, the expiry monitor monitor_token_expiry *)
(* and the sliding-window rate limiter check_rate_limit.                   *)
(*                                                                         *)
(* Scheduling is asyncio's: one task per connection plus one monitor task  *)
(* per authenticated connection, on one event loop.  A task runs without   *)
(* interruption between two awaits, so every action below is the code      *)
(* between two suspension points.  Time is the integer clock `now` (the    *)
(* seconds of time.time()); a timer that is due blocks the clock until it  *)
(* has fired.  The clock and every exp claim count from the start of the   *)
(* run, which is StartTime seconds after the epoch.                        *)
(***************************************************************************)
EXTENDS Integers, Sequences, FiniteSets, TLC

VARIABLES
    scenario,            \* which clients and inputs this run has
    conns,               \* the sockets that exist in this run
    now,                 \* time.time(), in seconds
    pc,                  \* handle_chat's position, per socket
    acceptTime,          \* when websocket.accept() returned
    inbox,               \* frames sent by the client, not yet received
    clientGone,          \* the client closed or the network failed
    nframes,             \* frames the client has sent so far (its next id - 1)
    closes,              \* close frames the server has sent: <<[code, reason]>>
    sent,                \* envelopes the server has sent
    mon,                 \* the expiry monitor task of the socket
    active_connections,  \* ConnectionManager.active_connections
    user_connections,    \* ConnectionManager.user_connections
    message_counts,      \* ConnectionManager.message_counts
    cur,                 \* the chat_message being processed (pc = "processing")
    lastMsgId,           \* the local `msg` of handle_chat: id of the last parsed ChatMessage, 0 = unbound
    client_id,           \* the local client_id of handle_chat is set
    recipe,              \* the stored recipe row the socket works on
    first,               \* history: the first frame the handler received
    recvAt,              \* history: the clock at each frame's receipt, by frame id
    raised,              \* history: the exception that ended handle_chat, "" = none
    rlLog,               \* history: every check_rate_limit call <<[t, ok]>>
    replaced             \* the monitor tasks monitoring_task no longer refers to

vars == <<scenario, conns, now, pc, acceptTime, inbox, clientGone, nframes, closes,
          sent, mon, active_connections, user_connections, message_counts, cur,
          lastMsgId, client_id, recipe, first, recvAt, raised, rlLog, replaced>>

(***************************************************************************)
(* Program constants.                                                      *)
(***************************************************************************)
MAX_CONNECTIONS_PER_USER == 5
MAX_MESSAGES_PER_MINUTE == 30
RATE_WINDOW == 60
AUTH_TIMEOUT == 5
REAUTH_TIMEOUT == 30
WARN_BEFORE == 60
WS_1008_POLICY_VIOLATION == 1008
WS_1009_TOO_LARGE == 1009
SWEEP_AFTER == 840
MAX_MESSAGE_SIZE == 65536

(***************************************************************************)
(* Bounds of the model.                                                    *)
(***************************************************************************)
StartTime == 1000        \* time.time() when the run starts; `now` counts from there
MaxTime == 900           \* the clock stops here
MaxFrames == 3           \* frames one client sends in the lifecycle scenario
MaxRateTime == 60        \* the clock's end in the rate-limit scenario
MaxLimiterTime == 90     \* the clock's end in the rate-limiter scenario
MaxChat == 32            \* chat messages one client sends in the rate-limit scenario
MaxCalls == 35           \* check_rate_limit calls in the rate-limiter scenario
MaxWords == 3            \* words of a chat text in the routing scenario
MaxSweeps == 1           \* _check_token_expiry calls that reach a connection

AllConns == 1 .. (MAX_CONNECTIONS_PER_USER + 1)

(***************************************************************************)
(* The users and recipes tables (src/src/db/models.py).  u1 owns the       *)
(* recipe of the URL, u2 exists and owns nothing, u9 is in no row.         *)
(***************************************************************************)
UsersInDb == {"u1", "u2"}
RecipeOwner == "u1"

\* The recipe: the Recipe object handle_chat loaded (has_ingredients and
\* version stand for its recipe_data and updated_at), the row of the table it
\* was loaded from, and whether the session has expired the object.
RecipeRow(ingr) == [has_ingredients |-> ingr, version |-> 0]
Recipe(ingr) ==
    [has_ingredients |-> ingr, version |-> 0, row |-> RecipeRow(ingr), expired |-> FALSE]

(***************************************************************************)
(* Bearer tokens.  A token is what jwt.encode signed: a signature that     *)
(* verifies or not, an optional exp claim, an optional sub claim.          *)
(***************************************************************************)
Tokens == {"t_long", "t_short", "t_mid", "t_expired", "t_badsig", "t_noexp", "t_nosub",
           "t_nouser", "t_other"}

TokSigOk(t) == t # "t_badsig"
TokHasExp(t) == t # "t_noexp"
TokExp(t) == CASE t = "t_short"   -> 65
               [] t = "t_mid"     -> 90
               [] t = "t_expired" -> -10
               [] OTHER           -> 900
TokSub(t) == CASE t = "t_nosub"  -> ""
               [] t = "t_nouser" -> "u9"
               [] t = "t_other"  -> "u2"
               [] OTHER          -> "u1"

\* decode_access_token: jwt.decode verifies the signature and, when the token
\* carries exp, that exp is not before the clock; any JWTError gives None.
DecodeOk(t, clock) == TokSigOk(t) /\ (TokHasExp(t) => TokExp(t) >= clock)

\* payload.get("exp", 0), on the model's clock (the epoch is at -StartTime)
PayloadExp(t) == IF TokHasExp(t) THEN TokExp(t) ELSE 0 - StartTime

\* is_token_expired
IsTokenExpired(expires_at, clock) == clock > expires_at

(***************************************************************************)
(* Frames of the client.  kind: a JSON object, a JSON value that is no     *)
(* object, text that is no JSON, or the transport's disconnect event.      *)
(* wellformed: the pydantic model of its type accepts it.  token = "" is a *)
(* payload without token.  body: what the text on the wire is made of, by  *)
(* name (BodyOf).                                                          *)
(***************************************************************************)
\* payload.content is a text: the sequence of its words that matter to
\* process_chat_message (a keyword or phrase, a colon, or any other word "x")
Vocabulary == {"copy", ":", "create", "make it", "change", "tip", "x"}
Text(name) ==
    CASE name = ""        -> <<>>
      [] name = "create"  -> <<"create">>
      [] name = "extract" -> <<"copy", ":", "x">>
      [] name = "modify"  -> <<"change">>
      [] name = "suggest" -> <<"tip">>
      [] OTHER            -> <<"x">>

\* every text of at most MaxWords words
Texts == UNION {[1 .. n -> Vocabulary] : n \in 0 .. MaxWords}

Frame(k, ty, wf, tok, txt, i, b) ==
    [kind |-> k, type |-> ty, wellformed |-> wf, token |-> tok, content |-> Text(txt),
     id |-> i, body |-> b]
NoFrame == Frame("none", "none", FALSE, "", "", 0, "plain")
Disconnect == Frame("disconnect", "none", FALSE, "", "", 0, "plain")
AuthFrame(t, i) == Frame("object", "auth", TRUE, t, "", i, "plain")
ChatFrame(txt, i) == Frame("object", "chat_message", TRUE, "", txt, i, "plain")

(***************************************************************************)
(* The text of a frame as the client wrote it: ascii bytes of the compact  *)
(* JSON, wide characters (non-ASCII, two UTF-8 bytes each), pad bytes of   *)
(* whitespace between the tokens, and seps, the number of "," and ":"      *)
(* between the tokens.  receive_json parses the text; the handler measures *)
(* json.dumps(data), which writes ", " and ": " for the separators, drops  *)
(* the client's whitespace and writes every wide character as a six-byte   *)
(* \uXXXX escape (ensure_ascii).                                           *)
(***************************************************************************)
Bodies == {"plain", "large", "edge", "padded", "escaped"}
BodyOf(b) ==
    CASE b = "large"   -> [ascii |-> 66700, wide |-> 0,     pad |-> 0,     seps |-> 8]
      [] b = "edge"    -> [ascii |-> 65536, wide |-> 0,     pad |-> 0,     seps |-> 8]
      [] b = "padded"  -> [ascii |-> 200,   wide |-> 0,     pad |-> 70000, seps |-> 8]
      [] b = "escaped" -> [ascii |-> 200,   wide |-> 20000, pad |-> 0,     seps |-> 8]
      [] OTHER         -> [ascii |-> 200,   wide |-> 0,     pad |-> 0,     seps |-> 8]

\* the bytes the client sent
WireBytes(b) == BodyOf(b).ascii + 2 * BodyOf(b).wide + BodyOf(b).pad
\* len(json.dumps(data).encode('utf-8'))
DumpedBytes(b) == BodyOf(b).ascii + 6 * BodyOf(b).wide + BodyOf(b).seps
\* ConnectionManager.check_message_size
CheckMessageSize_Off(n) == TRUE
CheckMessageSize(n) == n <= MAX_MESSAGE_SIZE

\* What a client may send next, by scenario.
FirstFrames(i) ==
    {AuthFrame(t, i) : t \in Tokens \cup {""}}
    \cup {Frame("object", "auth", FALSE, "t_long", "", i, "plain"),
          ChatFrame("create", i),
          Frame("object", "other", TRUE, "", "", i, "plain"),
          Frame("object", "none", TRUE, "", "", i, "plain"),
          Frame("not_json", "none", FALSE, "", "", i, "plain"),
          Frame("not_object", "none", FALSE, "", "", i, "plain")}

LaterFrames(i) ==
    {AuthFrame(t, i) : t \in {"t_long", "t_expired", "t_noexp", "t_other", ""}}
    \cup {Frame("object", "auth", FALSE, "t_long", "", i, "plain")}
    \cup {ChatFrame(txt, i) : txt \in {"create", "other", ""}}
    \cup {Frame("object", "other", TRUE, "", "", i, "plain"),
          Frame("object", "chat_message", TRUE, "", "create", i, "large"),
          Frame("object", "chat_message", TRUE, "", "create", i, "edge"),
          Frame("object", "chat_message", TRUE, "", "create", i, "padded"),
          Frame("object", "chat_message", TRUE, "", "create", i, "escaped"),
          Frame("object", "chat_message", FALSE, "", "create", i, "plain"),
          Frame("not_json", "none", FALSE, "", "", i, "plain"),
          Frame("not_object", "none", FALSE, "", "", i, "plain")}

ClientFrames(scn, i) ==
    CASE scn = "lifecycle" -> IF i = 1 THEN FirstFrames(i) ELSE LaterFrames(i)
      [] scn = "cap"       -> IF i = 1 THEN {AuthFrame("t_long", i)} ELSE {}
      [] scn = "rate"      -> IF i = 1 THEN {AuthFrame("t_mid", i)}
                              ELSE {ChatFrame("other", i)}
      [] scn = "burst"     -> IF i = 1 THEN {AuthFrame("t_long", i)}
                              ELSE {Frame("object", "chat_message", TRUE, "", "other", i, b) :
                                      b \in {"plain", "large", "padded"}}
      [] scn = "route"     -> IF i = 1 THEN {AuthFrame("t_long", i)}
                              ELSE {[ChatFrame("", i) EXCEPT !.content = w] : w \in Texts}
      [] OTHER             -> {}

FrameLimit(scn) ==
    CASE scn = "lifecycle" -> MaxFrames
      [] scn = "cap"       -> 1
      [] scn = "rate"      -> MaxChat + 1
      [] scn = "burst"     -> MaxChat + 1
      [] scn = "route"     -> 2
      [] OTHER             -> 0

(***************************************************************************)
(* Envelopes of the server.  request_id 0 is null.                         *)
(***************************************************************************)
RecipeUpdate(rid, txt, data) ==
    [type |-> "recipe_update", request_id |-> rid, content |-> txt, recipe_data |-> data]
\* AuthRequiredMessage(payload={key: "Token expiring soon"})
AuthRequiredWith(key) ==
    [type |-> "auth_required", request_id |-> 0, content |-> "Token expiring soon",
     recipe_data |-> "null", key |-> key]
AuthRequired == AuthRequiredWith("reason")

(***************************************************************************)
(* Finite maps with a changing key set (Python dicts).                     *)
(***************************************************************************)
Put(f, k, v) == [x \in DOMAIN f \cup {k} |-> IF x = k THEN v ELSE f[x]]
Del(f, k) == [x \in DOMAIN f \ {k} |-> f[x]]
EmptyMap == [x \in {} |-> 0]

(***************************************************************************)
(* The socket.                                                             *)
(***************************************************************************)
ServerClosed(c) == closes[c] # <<>>

\* websocket.receive_json() returns: a frame is waiting, or the transport
\* reports the disconnect (the peer left, or the server's close went out).
CanReceive(c) == inbox[c] # <<>> \/ clientGone[c] \/ ServerClosed(c)
NextFrame(c) ==
    IF ServerClosed(c) \/ inbox[c] = <<>> THEN Disconnect ELSE Head(inbox[c])
Taken(c) == IF inbox[c] = <<>> THEN <<>> ELSE Tail(inbox[c])
Stamped(c) ==
    IF NextFrame(c).kind = "disconnect" THEN recvAt[c] ELSE Append(recvAt[c], now)

\* A send or close reaches the peer; otherwise the call raises.
CanSend(c) == ~ServerClosed(c) /\ ~clientGone[c]

\* websocket.close(code, reason), whether or not it raises
CloseRaises(c) == IF CanSend(c) THEN "" ELSE "close"

CloseWith(c, code, reason) ==
    IF CanSend(c) THEN Append(closes[c], [code |-> code, reason |-> reason, at |-> now])
    ELSE closes[c]

(***************************************************************************)
(* ConnectionManager.check_rate_limit                                      *)
(***************************************************************************)
Pruned(w, clock) == SelectSeq(w, LAMBDA t : clock - t < RATE_WINDOW)
RateAdmits_OffByOne(w, clock) == Len(Pruned(w, clock)) <= MAX_MESSAGES_PER_MINUTE
RateAdmits(w, clock) == Len(Pruned(w, clock)) < MAX_MESSAGES_PER_MINUTE
RateWindowAfter(w, clock) ==
    IF RateAdmits(w, clock) THEN Append(Pruned(w, clock), clock) ELSE Pruned(w, clock)

(***************************************************************************)
(* ConnectionManager.connect and disconnect                                *)
(***************************************************************************)
UserSet(uc, u) == IF u \in DOMAIN uc THEN uc[u] ELSE {}
ConnectAdmits_OffByOne(uc, u) == Cardinality(UserSet(uc, u)) <= MAX_CONNECTIONS_PER_USER
ConnectAdmits(uc, u) == Cardinality(UserSet(uc, u)) < MAX_CONNECTIONS_PER_USER
\* user_connections after connect(websocket, c, u): the set is created when
\* missing, and the id is added after the test of the cap
ConnectUsers_AddsFirst(uc, u, c) == Put(uc, u, UserSet(uc, u) \cup {c})
ConnectUsers(uc, u, c) ==
    IF ConnectAdmits(uc, u) THEN Put(uc, u, UserSet(uc, u) \cup {c})
    ELSE Put(uc, u, UserSet(uc, u))

DisconnectUsers(uc, ac, c) ==
    IF c \in DOMAIN ac /\ ac[c].user_id \in DOMAIN uc
    THEN LET s == uc[ac[c].user_id] \ {c}
         IN  IF s = {} THEN Del(uc, ac[c].user_id) ELSE Put(uc, ac[c].user_id, s)
    ELSE uc
DisconnectCounts_Leak(mc, ac, c) == mc
DisconnectCounts(mc, ac, c) == IF c \in DOMAIN ac THEN Del(mc, c) ELSE mc
DisconnectActive(ac, c) == Del(ac, c)

(***************************************************************************)
(* monitor_token_expiry                                                    *)
(***************************************************************************)
NoMonitor == [st |-> "none", exp |-> 0, deadline |-> 0]
\* the task's first step: time_until_warning, then sleep or fall through
StartMonitor_NoMargin(exp, clock) ==
    IF exp - clock > 0
    THEN [st |-> "sleep", exp |-> exp, deadline |-> exp]
    ELSE [st |-> "done", exp |-> exp, deadline |-> 0]
StartMonitor(exp, clock) ==
    IF exp - clock - WARN_BEFORE > 0
    THEN [st |-> "sleep", exp |-> exp, deadline |-> exp - WARN_BEFORE]
    ELSE [st |-> "done", exp |-> exp, deadline |-> 0]
\* Task.cancel(): CancelledError at the await the task is suspended in
Cancelled_Noop(m) == m
Cancelled(m) == IF m.st \in {"sleep", "wait"} THEN [m EXCEPT !.st = "cancelled"] ELSE m

\* handle_chat goes on at p; or it leaves the try block for the finally,
\* by a return (why = "") or by an exception
Stay(c, p) == pc' = [pc EXCEPT ![c] = p] /\ raised' = raised
Leave(c, why) == pc' = [pc EXCEPT ![c] = "finally"] /\ raised' = [raised EXCEPT ![c] = why]

(***************************************************************************)
(* handle_chat, authentication: what the checks of the first frame give.   *)
(* "raise" is an exception that reaches the outer handlers (no close is    *)
(* sent), "ok" is a frame that passes every check before the registry.     *)
(***************************************************************************)
FirstCheck_SkipOwner(f, clock, dbRaises) ==
    CASE f.kind \in {"disconnect", "not_json", "not_object"} -> "raise"
      [] f.kind = "object" /\ f.type # "auth" -> "First message must be auth"
      [] f.kind = "object" /\ f.type = "auth" ->
           IF ~f.wellformed THEN "Invalid auth message format"
           ELSE IF f.token = "" THEN "Missing auth token"
           ELSE IF ~DecodeOk(f.token, clock) THEN "Invalid token"
           ELSE IF IsTokenExpired(PayloadExp(f.token), clock) THEN "Token expired"
           ELSE IF TokSub(f.token) = "" THEN "Invalid token payload"
           ELSE IF dbRaises THEN "raise"
           ELSE IF TokSub(f.token) \notin UsersInDb THEN "User not found"
           ELSE "ok"
      [] OTHER -> "raise"

FirstCheck_NoTypeGate(f, clock, dbRaises) ==
    CASE f.kind \in {"disconnect", "not_json", "not_object"} -> "raise"
      [] f.kind = "object" ->
           IF ~f.wellformed THEN "Invalid auth message format"
           ELSE IF f.token = "" THEN "Missing auth token"
           ELSE IF ~DecodeOk(f.token, clock) THEN "Invalid token"
           ELSE IF IsTokenExpired(PayloadExp(f.token), clock) THEN "Token expired"
           ELSE IF TokSub(f.token) = "" THEN "Invalid token payload"
           ELSE IF dbRaises THEN "raise"
           ELSE IF TokSub(f.token) \notin UsersInDb THEN "User not found"
           ELSE IF TokSub(f.token) # RecipeOwner THEN "Recipe not found or access denied"
           ELSE "ok"
      [] OTHER -> "raise"

FirstCheck(f, clock, dbRaises) ==
    CASE f.kind \in {"disconnect", "not_json", "not_object"} -> "raise"
      [] f.kind = "object" /\ f.type # "auth" -> "First message must be auth"
      [] f.kind = "object" /\ f.type = "auth" ->
           IF ~f.wellformed THEN "Invalid auth message format"
           ELSE IF f.token = "" THEN "Missing auth token"
           ELSE IF ~DecodeOk(f.token, clock) THEN "Invalid token"
           ELSE IF IsTokenExpired(PayloadExp(f.token), clock) THEN "Token expired"
           ELSE IF TokSub(f.token) = "" THEN "Invalid token payload"
           ELSE IF dbRaises THEN "raise"
           ELSE IF TokSub(f.token) \notin UsersInDb THEN "User not found"
           ELSE IF TokSub(f.token) # RecipeOwner THEN "Recipe not found or access denied"
           ELSE "ok"
      [] OTHER -> "raise"

Greeting_WarnsFirst(r) == AuthRequired
Greeting_AlwaysData(r) ==
    RecipeUpdate(0, "Connected to recipe chat. How can I help you with this recipe?", "data")
Greeting(r) ==
    RecipeUpdate(0, "Connected to recipe chat. How can I help you with this recipe?",
                 IF r.has_ingredients THEN "data" ELSE "null")
Apology_ErrorType(rid) ==
    [type |-> "error", request_id |-> rid,
     content |-> "Sorry, I couldn't process that request. Please try again.",
     recipe_data |-> "null"]
Apology(rid) ==
    RecipeUpdate(rid, "Sorry, I couldn't process that request. Please try again.", "null")

(***************************************************************************)
(* Initial states: nothing is connected, the registry is empty.            *)
(***************************************************************************)
InitWith(scn, cs, ingr) ==
    /\ scenario = scn
    /\ conns = cs
    /\ now = 0
    /\ pc = [c \in AllConns |-> "idle"]
    /\ acceptTime = [c \in AllConns |-> 0]
    /\ inbox = [c \in AllConns |-> <<>>]
    /\ clientGone = [c \in AllConns |-> FALSE]
    /\ nframes = [c \in AllConns |-> 0]
    /\ closes = [c \in AllConns |-> <<>>]
    /\ sent = [c \in AllConns |-> <<>>]
    /\ mon = [c \in AllConns |-> NoMonitor]
    /\ active_connections = EmptyMap
    /\ user_connections = EmptyMap
    /\ message_counts = EmptyMap
    /\ cur = [c \in AllConns |-> NoFrame]
    /\ lastMsgId = [c \in AllConns |-> 0]
    /\ client_id = [c \in AllConns |-> FALSE]
    /\ recipe \in {Recipe(i) : i \in ingr}
    /\ first = [c \in AllConns |-> NoFrame]
    /\ recvAt = [c \in AllConns |-> <<>>]
    /\ raised = [c \in AllConns |-> ""]
    /\ rlLog = <<>>
    /\ replaced = [c \in AllConns |-> <<>>]

Init == InitWith("lifecycle", {1}, BOOLEAN)

(***************************************************************************)
(* The client and the transport.                                           *)
(***************************************************************************)
Accept(c) ==
    /\ c \in conns
    /\ pc[c] = "idle"
    /\ pc' = [pc EXCEPT ![c] = "auth_wait"]
    /\ acceptTime' = [acceptTime EXCEPT ![c] = now]
    /\ UNCHANGED <<scenario, conns, now, inbox, clientGone, nframes, closes, sent, mon,
                   active_connections, user_connections, message_counts, cur,
                   lastMsgId, client_id, recipe, first, recvAt, raised, rlLog, replaced>>

ClientSend(c) ==
    /\ c \in conns
    /\ pc[c] \in {"auth_wait", "loop", "processing"}
    /\ ~clientGone[c] /\ ~ServerClosed(c)
    /\ inbox[c] = <<>>
    /\ nframes[c] < FrameLimit(scenario)
    /\ \E f \in ClientFrames(scenario, nframes[c] + 1) :
          inbox' = [inbox EXCEPT ![c] = <<f>>]
    /\ nframes' = [nframes EXCEPT ![c] = @ + 1]
    /\ UNCHANGED <<scenario, conns, now, pc, acceptTime, clientGone, closes, sent, mon,
                   active_connections, user_connections, message_counts, cur,
                   lastMsgId, client_id, recipe, first, recvAt, raised, rlLog, replaced>>

ClientDisconnect(c) ==
    /\ c \in conns
    /\ pc[c] \in (IF scenario = "cap" THEN {"loop"} ELSE {"auth_wait", "loop", "processing"})
    /\ ~clientGone[c] /\ ~ServerClosed(c)
    /\ clientGone' = [clientGone EXCEPT ![c] = TRUE]
    /\ UNCHANGED <<scenario, conns, now, pc, acceptTime, inbox, nframes, closes, sent, mon,
                   active_connections, user_connections, message_counts, cur,
                   lastMsgId, client_id, recipe, first, recvAt, raised, rlLog, replaced>>

(***************************************************************************)
(* handle_chat up to the read loop (lines 343-431).                        *)
(***************************************************************************)
\* asyncio.wait_for(websocket.receive_json(), timeout=5.0), begun at t
AuthDeadline_Late(t) == t + 2 * AUTH_TIMEOUT
AuthDeadline(t) == t + AUTH_TIMEOUT

AuthTimeout(c) ==
    /\ pc[c] = "auth_wait"
    /\ now >= AuthDeadline(acceptTime[c])
    /\ closes' = [closes EXCEPT ![c] =
                     CloseWith(c, WS_1008_POLICY_VIOLATION, "Authentication timeout")]
    /\ Leave(c, CloseRaises(c))
    /\ UNCHANGED <<scenario, conns, now, acceptTime, inbox, clientGone, nframes, sent, mon,
                   active_connections, user_connections, message_counts, cur,
                   lastMsgId, client_id, recipe, first, recvAt, rlLog, replaced>>

RecvFirst(c) ==
    /\ pc[c] = "auth_wait"
    /\ CanReceive(c)
    /\ \E dbRaises \in BOOLEAN :
       LET f == NextFrame(c)
           r == FirstCheck(f, now, dbRaises)
           u == TokSub(f.token)
       IN
       /\ inbox' = [inbox EXCEPT ![c] = Taken(c)]
       /\ first' = [first EXCEPT ![c] = f]
       /\ recvAt' = [recvAt EXCEPT ![c] = Stamped(c)]
       /\ IF r = "raise"
          THEN /\ Leave(c, CASE f.kind = "disconnect" -> "disconnect"
                              [] f.kind = "not_json" -> "json"
                              [] f.kind = "not_object" -> "attribute"
                              [] OTHER -> "db")
               /\ UNCHANGED <<closes, sent, mon, active_connections, user_connections,
                              message_counts, client_id>>
          ELSE IF r # "ok"
          THEN /\ closes' = [closes EXCEPT ![c] = CloseWith(c, WS_1008_POLICY_VIOLATION, r)]
               /\ Leave(c, CloseRaises(c))
               /\ UNCHANGED <<sent, mon, active_connections, user_connections,
                              message_counts, client_id>>
          ELSE IF ~ConnectAdmits(user_connections, u)
          THEN \* manager.connect refuses
               /\ client_id' = [client_id EXCEPT ![c] = TRUE]
               /\ user_connections' = ConnectUsers(user_connections, u, c)
               /\ closes' = [closes EXCEPT ![c] =
                     CloseWith(c, WS_1008_POLICY_VIOLATION, "Connection limit exceeded")]
               /\ Leave(c, CloseRaises(c))
               /\ UNCHANGED <<sent, mon, active_connections, message_counts>>
          ELSE \* manager.connect registers; monitor task; initial recipe_update
               /\ client_id' = [client_id EXCEPT ![c] = TRUE]
               /\ user_connections' = ConnectUsers(user_connections, u, c)
               /\ active_connections' =
                     Put(active_connections, c,
                         [user_id |-> u, auth_time |-> now, token_exp |-> PayloadExp(f.token)])
               /\ message_counts' = Put(message_counts, c, <<>>)
               /\ mon' = [mon EXCEPT ![c] = StartMonitor(PayloadExp(f.token), now)]
               /\ IF CanSend(c)
                  THEN /\ sent' = [sent EXCEPT ![c] = Append(@, Greeting(recipe))]
                       /\ Stay(c, "loop")
                  ELSE /\ sent' = sent
                       /\ Leave(c, "send")
               /\ closes' = closes
    /\ UNCHANGED <<scenario, conns, now, acceptTime, clientGone, nframes, cur, lastMsgId,
                   recipe, rlLog, replaced>>

(***************************************************************************)
(* handle_chat's finally (lines 528-535).                                  *)
(***************************************************************************)
Finally(c) ==
    /\ pc[c] = "finally"
    /\ pc' = [pc EXCEPT ![c] = "done"]
    /\ mon' = [mon EXCEPT ![c] = Cancelled(@)]
    /\ IF client_id[c]
       THEN /\ user_connections' = DisconnectUsers(user_connections, active_connections, c)
            /\ message_counts' = DisconnectCounts(message_counts, active_connections, c)
            /\ active_connections' = DisconnectActive(active_connections, c)
       ELSE UNCHANGED <<user_connections, message_counts, active_connections>>
    /\ UNCHANGED <<scenario, conns, now, acceptTime, inbox, clientGone, nframes, closes, sent,
                   cur, lastMsgId, client_id, recipe, first, recvAt, raised, rlLog, replaced>>

(***************************************************************************)
(* process_chat_message, as far as the read loop sees it: the route the    *)
(* text takes and what comes back.  backend is what the generation         *)
(* backend and the commit do, one of Outcomes.                             *)
(***************************************************************************)
ExtractKeywords == {"extract", "paste", "copy"}
CreateKeywords == {"create", "make", "generate", "recipe for"}
ModifyKeywords ==
    {"change", "modify", "update", "make it", "convert", "substitute", "replace"}
SuggestKeywords == {"suggest", "tip", "help", "advice"}

\* `keyword in message_lower`: the keyword is a substring of the text
Contains(word, keyword) == word = keyword \/ (word = "make it" /\ keyword = "make")
HasAny(txt, keywords) ==
    \E i \in DOMAIN txt : \E k \in keywords : Contains(txt[i], k)

\* re.search(r'(?:extract|paste|copy).*?:\s*(.*)', message, IGNORECASE | DOTALL)
TextMatch(txt) ==
    \E i, j \in DOMAIN txt :
        /\ i < j
        /\ \E k \in ExtractKeywords : Contains(txt[i], k)
        /\ txt[j] = ":"

\* the if / elif chain of lines 195-273, with the branch taken as result;
\* "prompt" is the else of the text_match test inside the first branch
Route(txt, has_ingredients) ==
    IF HasAny(txt, ExtractKeywords)
    THEN IF TextMatch(txt) THEN "extract" ELSE "prompt"
    ELSE IF HasAny(txt, CreateKeywords) THEN "create"
    ELSE IF has_ingredients /\ HasAny(txt, ModifyKeywords) THEN "modify"
    ELSE IF has_ingredients /\ HasAny(txt, SuggestKeywords) THEN "suggest"
    ELSE "help"

\* What the collaborators of one call do: the generation backend returns
\* ("ok") or raises ("raise", bad output included), or db.commit() raises.
\* A commit that raises at the COMMIT leaves the object with the data just
\* assigned ("commit_raises"); one that raises in the flush rolls the
\* session back and expires the object ("commit_expires"), and every later
\* `recipe.recipe_data` raises.
Outcomes == {"ok", "raise", "commit_raises", "commit_expires"}
Commits(route) == route \in {"extract", "create", "modify"}
Fails(route, backend) ==
    backend = "raise" \/ (Commits(route) /\ backend \in {"commit_raises", "commit_expires"})

\* <<content, recipe_data>> returned to handle_chat
ProcessResult_KeepsData(txt, r, backend) ==
    LET route == Route(txt, r.has_ingredients) IN
    IF r.expired
    THEN <<"Sorry, I couldn't process that request. <exception>", "data">>
    ELSE IF route = "help"
    THEN <<"help", IF r.has_ingredients THEN "data" ELSE "null">>
    ELSE IF route = "prompt"
    THEN <<"prompt", "null">>
    ELSE IF Fails(route, backend)
    THEN <<"Sorry, I couldn't process that request. <exception>", "data">>
    ELSE IF route = "suggest" THEN <<"suggestions", "data">>
    ELSE <<route, "data">>

ProcessResult(txt, r, backend) ==
    LET route == Route(txt, r.has_ingredients) IN
    IF r.expired
    THEN <<"Sorry, I couldn't process that request. <exception>", "null">>
    ELSE IF route = "help"
    THEN <<"help", IF r.has_ingredients THEN "data" ELSE "null">>
    ELSE IF route = "prompt"
    THEN <<"prompt", "null">>
    ELSE IF Fails(route, backend)
    THEN <<"Sorry, I couldn't process that request. <exception>", "null">>
    ELSE IF route = "suggest" THEN <<"suggestions", "data">>
    ELSE <<route, "data">>

RecipeAfter_AlwaysStamps(txt, r, backend) ==
    [r EXCEPT !.version = r.version + 1, !.row = [r.row EXCEPT !.version = r.version + 1]]

RecipeAfter(txt, r, backend) ==
    LET route == Route(txt, r.has_ingredients) IN
    IF r.expired \/ ~Commits(route) \/ backend = "raise" THEN r
    ELSE IF backend = "ok"
    THEN [r EXCEPT !.has_ingredients = TRUE, !.version = r.version + 1,
                   !.row = [has_ingredients |-> TRUE, version |-> r.version + 1]]
    ELSE IF backend = "commit_raises"
    THEN [r EXCEPT !.has_ingredients = TRUE, !.version = r.version + 1]
    ELSE [r EXCEPT !.expired = TRUE]

(***************************************************************************)
(* handle_chat's read loop (lines 434-522): one received frame.            *)
(***************************************************************************)
\* user_message = msg.payload.get("content", ""); `if not user_message`
HasContent_Always(f) == TRUE
HasContent(f) == f.content # <<>>

Window(c) == IF c \in DOMAIN message_counts THEN message_counts[c] ELSE <<>>

\* the inner except of the dispatch: the apology, then the loop goes on;
\* a send that raises leaves through the outer handlers
SendApology(c) ==
    IF CanSend(c)
    THEN /\ sent' = [sent EXCEPT ![c] = Append(@, Apology(lastMsgId[c]))]
         /\ Stay(c, "loop")
    ELSE /\ sent' = sent
         /\ Leave(c, "send")

LoopRecv(c) ==
    /\ pc[c] = "loop"
    /\ CanReceive(c)
    /\ LET f == NextFrame(c)
           ok == RateAdmits(Window(c), now)
       IN
       /\ inbox' = [inbox EXCEPT ![c] = Taken(c)]
       /\ recvAt' = [recvAt EXCEPT ![c] = Stamped(c)]
       /\ IF f.kind = "disconnect"
          THEN \* WebSocketDisconnect, then close() raises on the dead socket
               /\ closes' = [closes EXCEPT ![c] =
                     CloseWith(c, WS_1008_POLICY_VIOLATION, "Invalid message format")]
               /\ Leave(c, CloseRaises(c))
               /\ UNCHANGED <<sent, mon, message_counts, cur, lastMsgId, rlLog, replaced>>
          ELSE IF f.kind = "not_json"
          THEN /\ closes' = [closes EXCEPT ![c] =
                     CloseWith(c, WS_1008_POLICY_VIOLATION, "Invalid JSON")]
               /\ Leave(c, CloseRaises(c))
               /\ UNCHANGED <<sent, mon, message_counts, cur, lastMsgId, rlLog, replaced>>
          ELSE IF ~CheckMessageSize(DumpedBytes(f.body))
          THEN /\ closes' = [closes EXCEPT ![c] =
                     CloseWith(c, WS_1009_TOO_LARGE, "Message too large")]
               /\ Leave(c, CloseRaises(c))
               /\ UNCHANGED <<sent, mon, message_counts, cur, lastMsgId, rlLog, replaced>>
          ELSE
          /\ message_counts' = Put(message_counts, c, RateWindowAfter(Window(c), now))
          /\ rlLog' = Append(rlLog, [t |-> now, ok |-> ok])
          /\ IF ~ok
             THEN /\ closes' = [closes EXCEPT ![c] =
                        CloseWith(c, WS_1008_POLICY_VIOLATION, "Rate limit exceeded")]
                  /\ Leave(c, CloseRaises(c))
                  /\ UNCHANGED <<sent, mon, cur, lastMsgId, replaced>>
             ELSE IF f.kind = "not_object"
             THEN \* data.get raises
                  /\ SendApology(c)
                  /\ UNCHANGED <<closes, mon, cur, lastMsgId, replaced>>
             ELSE IF f.type = "auth"
             THEN IF ~f.wellformed \/ f.token = ""
                  THEN \* AuthMessage(**data) or jwt.decode(None) raises
                       /\ SendApology(c)
                       /\ UNCHANGED <<closes, mon, cur, lastMsgId, replaced>>
                  ELSE IF ~DecodeOk(f.token, now)
                          \/ IsTokenExpired(PayloadExp(f.token), now)
                  THEN /\ closes' = [closes EXCEPT ![c] =
                             CloseWith(c, WS_1008_POLICY_VIOLATION, "Invalid or expired token")]
                       /\ Leave(c, CloseRaises(c))
                       /\ UNCHANGED <<sent, mon, cur, lastMsgId, replaced>>
                  ELSE \* the old task is cancelled, a new one is created
                       /\ replaced' = [replaced EXCEPT ![c] = Append(@, Cancelled(mon[c]))]
                       /\ mon' = [mon EXCEPT ![c] = StartMonitor(PayloadExp(f.token), now)]
                       /\ UNCHANGED <<pc, raised, closes, sent, cur, lastMsgId>>
             ELSE IF f.type = "chat_message"
             THEN IF ~f.wellformed
                  THEN \* ChatMessage(**data) raises
                       /\ SendApology(c)
                       /\ UNCHANGED <<closes, mon, cur, lastMsgId, replaced>>
                  ELSE /\ lastMsgId' = [lastMsgId EXCEPT ![c] = f.id]
                       /\ IF ~HasContent(f)
                          THEN UNCHANGED <<pc, raised, cur>>
                          ELSE /\ Stay(c, "processing")
                               /\ cur' = [cur EXCEPT ![c] = f]
                       /\ UNCHANGED <<closes, sent, mon, replaced>>
             ELSE UNCHANGED <<pc, raised, closes, sent, mon, cur, lastMsgId, replaced>>
    /\ UNCHANGED <<scenario, conns, now, acceptTime, clientGone, nframes,
                   active_connections, user_connections, client_id, recipe, first>>

\* process_chat_message returns; the recipe_update is sent (lines 494-508)
ProcessDone(c) ==
    /\ pc[c] = "processing"
    /\ \E backend \in (IF scenario \in {"rate", "burst"} THEN {"ok"} ELSE Outcomes) :
       LET res == ProcessResult(cur[c].content, recipe, backend) IN
       /\ recipe' = RecipeAfter(cur[c].content, recipe, backend)
       /\ IF CanSend(c)
          THEN /\ sent' = [sent EXCEPT ![c] = Append(@, RecipeUpdate(cur[c].id, res[1], res[2]))]
               /\ Stay(c, "loop")
          ELSE /\ sent' = sent
               /\ Leave(c, "send")
    /\ cur' = [cur EXCEPT ![c] = NoFrame]
    /\ UNCHANGED <<scenario, conns, now, acceptTime, inbox, clientGone, nframes, closes, mon,
                   active_connections, user_connections, message_counts, lastMsgId,
                   client_id, first, recvAt, rlLog, replaced>>

(***************************************************************************)
(* monitor_token_expiry (lines 280-333), after its first step.             *)
(***************************************************************************)
MonitorWake(c) ==
    /\ mon[c].st = "sleep"
    /\ now >= mon[c].deadline
    /\ IF CanSend(c)
       THEN /\ sent' = [sent EXCEPT ![c] = Append(@, AuthRequired)]
            /\ mon' = [mon EXCEPT ![c] = [@ EXCEPT !.st = "wait",
                                                   !.deadline = now + REAUTH_TIMEOUT]]
       ELSE /\ sent' = sent
            /\ mon' = [mon EXCEPT ![c] = [@ EXCEPT !.st = "done"]]
    /\ UNCHANGED <<scenario, conns, now, pc, acceptTime, inbox, clientGone, nframes, closes,
                   active_connections, user_connections, message_counts, cur, lastMsgId,
                   client_id, recipe, first, recvAt, raised, rlLog, replaced>>

MonitorRecv(c) ==
    /\ mon[c].st = "wait"
    /\ CanReceive(c)
    /\ LET f == NextFrame(c) IN
       /\ inbox' = [inbox EXCEPT ![c] = Taken(c)]
       /\ recvAt' = [recvAt EXCEPT ![c] = Stamped(c)]
       /\ IF f.kind # "object"
          THEN \* the receive or reauth_msg.get raises: except Exception, the task ends
               /\ mon' = [mon EXCEPT ![c] = [@ EXCEPT !.st = "done"]]
               /\ closes' = closes
          ELSE IF f.type # "auth"
          THEN /\ closes' = [closes EXCEPT ![c] =
                     CloseWith(c, WS_1008_POLICY_VIOLATION, "Expected auth message")]
               /\ mon' = [mon EXCEPT ![c] = [@ EXCEPT !.st = "done"]]
          ELSE IF ~f.wellformed \/ f.token = ""
          THEN /\ mon' = [mon EXCEPT ![c] = [@ EXCEPT !.st = "done"]]
               /\ closes' = closes
          ELSE IF ~DecodeOk(f.token, now)
          THEN /\ closes' = [closes EXCEPT ![c] =
                     CloseWith(c, WS_1008_POLICY_VIOLATION, "Invalid token")]
               /\ mon' = [mon EXCEPT ![c] = [@ EXCEPT !.st = "done"]]
          ELSE \* await monitor_token_expiry(websocket, new_expiry, client_id)
               /\ mon' = [mon EXCEPT ![c] = StartMonitor(PayloadExp(f.token), now)]
               /\ closes' = closes
    /\ UNCHANGED <<scenario, conns, now, pc, acceptTime, clientGone, nframes, sent,
                   active_connections, user_connections, message_counts, cur, lastMsgId,
                   client_id, recipe, first, raised, rlLog, replaced>>

MonitorTimeout(c) ==
    /\ mon[c].st = "wait"
    /\ now >= mon[c].deadline
    /\ closes' = [closes EXCEPT ![c] =
          CloseWith(c, WS_1008_POLICY_VIOLATION, "Re-authentication timeout")]
    /\ mon' = [mon EXCEPT ![c] = [@ EXCEPT !.st = "done"]]
    /\ UNCHANGED <<scenario, conns, now, pc, acceptTime, inbox, clientGone, nframes, sent,
                   active_connections, user_connections, message_counts, cur, lastMsgId,
                   client_id, recipe, first, recvAt, raised, rlLog, replaced>>

(***************************************************************************)
(* The clock.  It waits for every timer that is due.  In the lifecycle and *)
(* cap scenarios it advances to the next pending deadline (asyncio.sleep   *)
(* and asyncio.wait_for are the only things that wait for time); in the    *)
(* rate scenarios it advances in steps of half the rate window.            *)
(***************************************************************************)
PendingDeadlines ==
    {AuthDeadline(acceptTime[c]) : c \in {x \in conns : pc[x] = "auth_wait"}}
    \cup {mon[c].deadline : c \in {x \in conns : mon[x].st \in {"sleep", "wait"}}}

TimerDue == \E d \in PendingDeadlines : now >= d

Earliest(S) == CHOOSE d \in S : \A e \in S : d <= e

Tick ==
    /\ ~TimerDue
    /\ IF scenario \in {"rate", "ratefn"}
       THEN /\ now + REAUTH_TIMEOUT <= (IF scenario = "rate" THEN MaxRateTime ELSE MaxLimiterTime)
            /\ now' = now + REAUTH_TIMEOUT
       ELSE /\ PendingDeadlines # {}
            /\ Earliest(PendingDeadlines) <= MaxTime
            /\ \E c \in conns : pc[c] \notin {"idle", "done"}
            /\ now' = Earliest(PendingDeadlines)
    /\ UNCHANGED <<scenario, conns, pc, acceptTime, inbox, clientGone, nframes, closes, sent,
                   mon, active_connections, user_connections, message_counts, cur,
                   lastMsgId, client_id, recipe, first, recvAt, raised, rlLog, replaced>>

(***************************************************************************)
(* The lifecycle of one socket, with every input.                          *)
(***************************************************************************)
Next ==
    \/ \E c \in AllConns :
          \/ Accept(c)
          \/ ClientSend(c)
          \/ ClientDisconnect(c)
          \/ AuthTimeout(c)
          \/ RecvFirst(c)
          \/ LoopRecv(c)
          \/ ProcessDone(c)
          \/ MonitorWake(c)
          \/ MonitorRecv(c)
          \/ MonitorTimeout(c)
          \/ Finally(c)
    \/ Tick

Spec == Init /\ [][Next]_vars

(***************************************************************************)
(* The connection cap: six sockets of one user have been accepted and      *)
(* each has a valid auth frame on its way; a client may leave once it is   *)
(* connected.                                                              *)
(***************************************************************************)
InitCap ==
    /\ scenario = "cap"
    /\ conns = AllConns
    /\ now = 0
    /\ pc = [c \in AllConns |-> "auth_wait"]
    /\ acceptTime = [c \in AllConns |-> 0]
    /\ inbox = [c \in AllConns |-> <<AuthFrame("t_long", 1)>>]
    /\ clientGone = [c \in AllConns |-> FALSE]
    /\ nframes = [c \in AllConns |-> 1]
    /\ closes = [c \in AllConns |-> <<>>]
    /\ sent = [c \in AllConns |-> <<>>]
    /\ mon = [c \in AllConns |-> NoMonitor]
    /\ active_connections = EmptyMap
    /\ user_connections = EmptyMap
    /\ message_counts = EmptyMap
    /\ cur = [c \in AllConns |-> NoFrame]
    /\ lastMsgId = [c \in AllConns |-> 0]
    /\ client_id = [c \in AllConns |-> FALSE]
    /\ recipe = Recipe(FALSE)
    /\ first = [c \in AllConns |-> NoFrame]
    /\ recvAt = [c \in AllConns |-> <<>>]
    /\ raised = [c \in AllConns |-> ""]
    /\ rlLog = <<>>
    /\ replaced = [c \in AllConns |-> <<>>]

NextCap ==
    \E c \in AllConns :
        \/ ClientDisconnect(c)
        \/ RecvFirst(c)
        \/ LoopRecv(c)
        \/ Finally(c)

SpecCap == InitCap /\ [][NextCap]_vars

(***************************************************************************)
(* The rate limiter alone: check_rate_limit called for one connection id   *)
(* at any pace while the clock moves on.                                   *)
(***************************************************************************)
InitRL == InitWith("ratefn", {}, {FALSE})

CheckRateLimit(c) ==
    /\ scenario = "ratefn"
    /\ Len(rlLog) < MaxCalls
    /\ message_counts' = Put(message_counts, c, RateWindowAfter(Window(c), now))
    /\ rlLog' = Append(rlLog, [t |-> now, ok |-> RateAdmits(Window(c), now)])
    /\ UNCHANGED <<scenario, conns, now, pc, acceptTime, inbox, clientGone, nframes, closes,
                   sent, mon, active_connections, user_connections, cur, lastMsgId,
                   client_id, recipe, first, recvAt, raised, replaced>>

NextRL == CheckRateLimit(1) \/ Tick

SpecRL == InitRL /\ [][NextRL]_vars

(***************************************************************************)
(* The rate limit on a connection: one socket, a valid auth, then chat     *)
(* messages only.                                                          *)
(***************************************************************************)
InitRate == InitWith("rate", {1}, {FALSE})

NextRate ==
    \/ \E c \in AllConns :
          \/ Accept(c)
          \/ ClientSend(c)
          \/ AuthTimeout(c)
          \/ RecvFirst(c)
          \/ LoopRecv(c)
          \/ ProcessDone(c)
          \/ MonitorWake(c)
          \/ MonitorRecv(c)
          \/ MonitorTimeout(c)
          \/ Finally(c)
    \/ Tick

SpecRate == InitRate /\ [][NextRate]_vars

(***************************************************************************)
(* _check_token_expiry (lines 129-147), the sweep over the registry that   *)
(* the tests call: every connection authenticated 14 minutes ago or more   *)
(* is sent an auth_required.  The registry is walked in the order of the   *)
(* sockets; a send that raises ends the sweep.                             *)
(***************************************************************************)
SweepDue(c) ==
    /\ c \in DOMAIN active_connections
    /\ now - active_connections[c].auth_time >= SWEEP_AFTER

SweepReaches(c) ==
    /\ SweepDue(c)
    /\ \A d \in AllConns : (d <= c /\ SweepDue(d)) => CanSend(d)

SweepsSeen(c) ==
    Cardinality({k \in DOMAIN sent[c] : sent[c][k] = AuthRequiredWith("message")})

CheckTokenExpiry ==
    /\ \E c \in AllConns : SweepReaches(c)
    /\ \A c \in AllConns : SweepReaches(c) => SweepsSeen(c) < MaxSweeps
    /\ sent' = [c \in AllConns |->
                  IF SweepReaches(c)
                  THEN Append(sent[c], AuthRequiredWith("message"))
                  ELSE sent[c]]
    /\ UNCHANGED <<scenario, conns, now, pc, acceptTime, inbox, clientGone, nframes, closes,
                   mon, active_connections, user_connections, message_counts, cur,
                   lastMsgId, client_id, recipe, first, recvAt, raised, rlLog, replaced>>

NextSweep == Next \/ CheckTokenExpiry

SpecSweep == Init /\ [][NextSweep]_vars

(***************************************************************************)
(* Size check and rate limiter together: one socket, a valid auth, then    *)
(* chat messages of any size in one burst (the clock does not move).       *)
(***************************************************************************)
InitBurst == InitWith("burst", {1}, {FALSE})

NextBurst ==
    \E c \in AllConns :
        \/ Accept(c)
        \/ ClientSend(c)
        \/ RecvFirst(c)
        \/ LoopRecv(c)
        \/ ProcessDone(c)
        \/ Finally(c)

SpecBurst == InitBurst /\ [][NextBurst]_vars

(***************************************************************************)
(* The intent routing: one socket, a valid auth, then one chat message     *)
(* with any text, on a recipe with or without ingredients.                 *)
(***************************************************************************)
InitRoute == InitWith("route", {1}, BOOLEAN)

NextRoute ==
    \E c \in AllConns :
        \/ Accept(c)
        \/ ClientSend(c)
        \/ RecvFirst(c)
        \/ LoopRecv(c)
        \/ ProcessDone(c)

SpecRoute == InitRoute /\ [][NextRoute]_vars

(***************************************************************************)
(* What the properties below speak of.                                     *)
(***************************************************************************)
\* every connection id the registry holds, in any of its three maps
RegistryIds ==
    DOMAIN active_connections \cup DOMAIN message_counts
    \cup UNION {user_connections[u] : u \in DOMAIN user_connections}

\* the first frame of c was an auth envelope with a verified token that had
\* not expired at its receipt, of an existing user who owns the recipe
FirstAuthGood(c) ==
    /\ recvAt[c] # <<>>
    /\ first[c].kind = "object" /\ first[c].type = "auth" /\ first[c].wellformed
    /\ first[c].token # ""
    /\ TokSigOk(first[c].token)
    /\ TokHasExp(first[c].token) /\ TokExp(first[c].token) >= recvAt[c][1]
    /\ TokSub(first[c].token) \in UsersInDb
    /\ TokSub(first[c].token) = RecipeOwner

CloseFrame(code, reason, t) == [code |-> code, reason |-> reason, at |-> t]

\* C1: every id in active_connections, user_connections or message_counts is
\* of a connection whose first message was an auth envelope with a verified,
\* non-expired token, an existing user and a recipe of that user; a
\* connection still authenticating, or one whose authentication failed, is
\* not in the registry.
C1_RegistryOnlyAuthenticated ==
    \A c \in RegistryIds : pc[c] \notin {"idle", "auth_wait"} /\ FirstAuthGood(c)

C1_Witness ==
    \E c \in conns :
        /\ c \in DOMAIN active_connections /\ c \in DOMAIN message_counts
        /\ c \in UserSet(user_connections, RecipeOwner)
        /\ pc[c] = "loop"

\* C2: in every step, no subject has more than 5 registered connections; a
\* connection that finishes a valid authentication (the lookups answering)
\* while 5 connections of its subject are registered is refused with close
\* code 1008 and reason "Connection limit exceeded" and is not registered,
\* and one that finishes it while fewer are registered is registered.
C2_ConnectionCap ==
    [][ /\ \A u \in DOMAIN user_connections' :
              Cardinality(user_connections'[u]) <= MAX_CONNECTIONS_PER_USER
        /\ \A c \in AllConns :
              (pc[c] = "auth_wait" /\ pc'[c] # "auth_wait" /\ raised'[c] # "db") =>
                 IF Cardinality(UserSet(user_connections, TokSub(first'[c].token)))
                        >= MAX_CONNECTIONS_PER_USER
                 THEN /\ closes'[c] = <<CloseFrame(WS_1008_POLICY_VIOLATION,
                                                   "Connection limit exceeded", now)>>
                      /\ c \notin RegistryIds'
                      /\ sent'[c] = <<>>
                 ELSE /\ c \in DOMAIN active_connections'
                      /\ c \in user_connections'[TokSub(first'[c].token)]
      ]_vars

C2_Witness ==
    \E c \in AllConns :
        /\ closes[c] # <<>> /\ closes[c][1].reason = "Connection limit exceeded"
        /\ Cardinality(UserSet(user_connections, RecipeOwner)) = MAX_CONNECTIONS_PER_USER
        /\ \A d \in AllConns \ {c} : pc[d] = "loop"

\* C3: once handle_chat has ended, on whatever path, the connection's expiry
\* monitor is not pending (it has been cancelled or has ended), and its id is
\* absent from active_connections, from every user_connections set and from
\* message_counts.
C3_TeardownOnEveryExit ==
    \A c \in conns :
        pc[c] = "done" =>
            /\ mon[c].st \notin {"sleep", "wait"}
            /\ c \notin RegistryIds

C3_Witness ==
    \E c \in conns :
        /\ pc[c] = "done"
        /\ sent[c] # <<>>
        /\ mon[c].st = "cancelled"
        /\ raised[c] # ""

\* C4: when the first frame received is an envelope whose type is not auth,
\* the handler ends at once, the server's only close frame is 1008 "First
\* message must be auth" (sent at the frame's receipt, if the client is
\* still there), nothing is ever sent on the connection and it is never
\* registered.
C4_FirstMustBeAuth ==
    \A c \in conns :
        (first[c].kind = "object" /\ first[c].type # "auth") =>
            /\ pc[c] \in {"finally", "done"}
            /\ sent[c] = <<>>
            /\ c \notin RegistryIds
            /\ mon[c] = NoMonitor
            /\ ~clientGone[c] =>
                 closes[c] = <<CloseFrame(WS_1008_POLICY_VIOLATION,
                                          "First message must be auth", recvAt[c][1])>>

C4_Witness ==
    \E c \in conns :
        /\ first[c].kind = "object" /\ first[c].type = "chat_message"
        /\ pc[c] = "done"
        /\ closes[c] # <<>>

\* C5: the handler never waits for the first message beyond 5 seconds after
\* accept; a handler that ended without having received anything closed the
\* connection with 1008 "Authentication timeout" exactly 5 seconds after
\* accept (if the client is still there), sent nothing, and never registered
\* the connection or started a monitor.
C5_AuthTimeout ==
    \A c \in conns :
        /\ pc[c] = "auth_wait" => now <= acceptTime[c] + AUTH_TIMEOUT
        /\ (pc[c] \in {"finally", "done"} /\ first[c] = NoFrame) =>
              /\ sent[c] = <<>>
              /\ c \notin RegistryIds
              /\ mon[c] = NoMonitor
              /\ ~clientGone[c] =>
                   closes[c] = <<CloseFrame(WS_1008_POLICY_VIOLATION,
                                            "Authentication timeout",
                                            acceptTime[c] + AUTH_TIMEOUT)>>

C5_Witness ==
    \E c \in conns :
        /\ first[c] = NoFrame
        /\ pc[c] = "done"
        /\ closes[c] # <<>> /\ closes[c][1].reason = "Authentication timeout"

\* The reason the ordered list of checks gives for an auth envelope: a token
\* fails verification when its signature does not verify, it is expired when
\* its expiry lies before the clock.
ClaimedAuthReason(f, clock) ==
    IF ~f.wellformed THEN "Invalid auth message format"
    ELSE IF f.token = "" THEN "Missing auth token"
    ELSE IF ~TokSigOk(f.token) THEN "Invalid token"
    ELSE IF PayloadExp(f.token) < clock THEN "Token expired"
    ELSE IF TokSub(f.token) \notin UsersInDb THEN "User not found"
    ELSE IF TokSub(f.token) # RecipeOwner THEN "Recipe not found or access denied"
    ELSE "ok"

\* C6: a first auth envelope that fails one of the listed checks (its token,
\* if it verifies, naming a subject, and the lookups answering) gets exactly
\* one close frame, 1008 with the reason of the first failing check in the
\* listed order, and no envelope is sent.
C6_FailedAuthReasons ==
    \A c \in conns :
        ( /\ first[c].kind = "object" /\ first[c].type = "auth"
          /\ ClaimedAuthReason(first[c], recvAt[c][1]) # "ok"
          /\ (first[c].wellformed /\ first[c].token # "" /\ TokSigOk(first[c].token))
                => TokSub(first[c].token) # ""
          /\ raised[c] # "db"
          /\ ~clientGone[c] ) =>
            /\ closes[c] = <<CloseFrame(WS_1008_POLICY_VIOLATION,
                                        ClaimedAuthReason(first[c], recvAt[c][1]),
                                        recvAt[c][1])>>
            /\ sent[c] = <<>>

\* the close reasons of websocket.py that contain "expired"
ReasonsWithExpired == {"Token expired", "Invalid or expired token"}

\* C7: a first auth envelope whose correctly signed token carries an expiry
\* in the past gets exactly one close frame, 1008 with a reason containing
\* "expired", and nothing else is sent.
C7_ExpiredTokenReason ==
    \A c \in conns :
        ( /\ first[c].kind = "object" /\ first[c].type = "auth" /\ first[c].wellformed
          /\ first[c].token # "" /\ TokSigOk(first[c].token)
          /\ TokHasExp(first[c].token) /\ TokExp(first[c].token) < recvAt[c][1]
          /\ ~clientGone[c] ) =>
            /\ Len(closes[c]) = 1
            /\ closes[c][1].code = WS_1008_POLICY_VIOLATION
            /\ closes[c][1].reason \in ReasonsWithExpired
            /\ sent[c] = <<>>

\* C8: whenever handle_chat has returned and the client had not left, the
\* server has sent a close frame, and every close frame it sent has code
\* 1008 or 1009 and a reason.
C8_AlwaysExplicitClose ==
    \A c \in conns :
        (pc[c] = "done" /\ ~clientGone[c]) =>
            /\ closes[c] # <<>>
            /\ \A i \in DOMAIN closes[c] :
                  /\ closes[c][i].code \in {WS_1008_POLICY_VIOLATION, WS_1009_TOO_LARGE}
                  /\ closes[c][i].reason # ""

\* the chat_message with frame id i has got its recipe_update
Answered(c, i) ==
    \E k \in DOMAIN sent[c] :
        sent[c][k].type = "recipe_update" /\ sent[c][k].request_id = i

\* C9: on the authenticated connection (frame 1 is the auth), every chat
\* message received less than 60 seconds after the first one is, if it is
\* among the first 30, being processed or answered by a recipe_update with
\* its id, and if it is the 31st, the one close frame of the connection is
\* 1008 "Rate limit exceeded", sent at its receipt.
C9_ThirtyThenClose ==
    \A i \in 2 .. Len(recvAt[1]) :
        (recvAt[1][i] - recvAt[1][2] < RATE_WINDOW) =>
            IF i <= MAX_MESSAGES_PER_MINUTE + 1
            THEN Answered(1, i) \/ (pc[1] = "processing" /\ cur[1].id = i)
            ELSE closes[1] = <<CloseFrame(WS_1008_POLICY_VIOLATION,
                                          "Rate limit exceeded", recvAt[1][i])>>

\* the admitted calls before call i whose timestamps are in the trailing
\* window of call i
AdmittedBefore(i) ==
    {j \in 1 .. (i - 1) : rlLog[j].ok /\ rlLog[i].t - rlLog[j].t < RATE_WINDOW}

\* the timestamps check_rate_limit should hold after the last call
ExpectedWindow ==
    IF rlLog = <<>> THEN <<>>
    ELSE LET last == rlLog[Len(rlLog)].t
             adm == SelectSeq(rlLog, LAMBDA e : e.ok /\ last - e.t < RATE_WINDOW)
         IN  [k \in 1 .. Len(adm) |-> adm[k].t]

\* C10: in every sequence of check_rate_limit calls on one connection, a
\* call is admitted iff fewer than 30 admitted calls lie in its trailing 60
\* seconds; the window holds exactly the timestamps of the admitted calls
\* that are still in the trailing window (one per admitted call, none for a
\* rejected one), and never more than 30.
C10_SlidingWindow ==
    /\ \A i \in DOMAIN rlLog :
          rlLog[i].ok <=> Cardinality(AdmittedBefore(i)) < MAX_MESSAGES_PER_MINUTE
    /\ Window(1) = ExpectedWindow
    /\ Len(Window(1)) <= MAX_MESSAGES_PER_MINUTE

C10_Witness ==
    \E i, j \in DOMAIN rlLog :
        /\ i < j
        /\ ~rlLog[i].ok
        /\ rlLog[j].ok
        /\ Len(Window(1)) >= 2

\* the read loop of c takes the frame at the head of the inbox in this step
\* (the monitor, when it takes a frame, ends or restarts, so mon changes)
LoopTakes(c) ==
    /\ pc[c] = "loop"
    /\ ~ServerClosed(c)
    /\ inbox[c] # <<>>
    /\ inbox'[c] = Tail(inbox[c])
    /\ (mon'[c] = mon[c] \/ replaced'[c] # replaced[c])

\* C11: on an authenticated connection whose client is there, a chat_message
\* the read loop takes gets the close frame 1009 in that step when its text
\* as sent is over 64 KiB, and no close frame 1009 when it is at most 64 KiB.
C11_SizeLimitAsSent ==
    [][ \A c \in conns :
          ( /\ LoopTakes(c)
            /\ Head(inbox[c]).kind = "object"
            /\ Head(inbox[c]).type = "chat_message"
            /\ CanSend(c) ) =>
              IF WireBytes(Head(inbox[c]).body) > MAX_MESSAGE_SIZE
              THEN closes'[c] = Append(closes[c], CloseFrame(WS_1009_TOO_LARGE,
                                                             "Message too large", now))
              ELSE \A k \in DOMAIN closes'[c] : closes'[c][k].code # WS_1009_TOO_LARGE
      ]_vars

\* the request ids of the recipe_updates that answer a message, in the order
\* the server sent them
AnswerIds(c) ==
    LET a == SelectSeq(sent[c], LAMBDA e : e.type = "recipe_update" /\ e.request_id # 0)
    IN  [k \in 1 .. Len(a) |-> a[k].request_id]

\* C12: on the connection that sends only chat messages with content after
\* its auth (frame ids 2, 3, ...), as long as no more than 30 were received
\* (so that the rate limit plays no part), the answers sent are tagged, in
\* order, with the ids of all the messages received, the one being processed
\* excepted.
C12_InOrderAnswers ==
    LET n == Len(recvAt[1]) - 1
        m == IF pc[1] = "processing" THEN n - 1 ELSE n
    IN  (n >= 1 /\ n <= MAX_MESSAGES_PER_MINUTE) =>
            AnswerIds(1) = [k \in 1 .. m |-> k + 1]

\* C13: while the read loop of a connection is handling an envelope (it
\* awaits process_chat_message), no task takes a further inbound envelope
\* of that connection.
C13_NoConcurrentConsumption ==
    [][ \A c \in conns : pc[c] = "processing" => recvAt'[c] = recvAt[c] ]_vars

\* what process_chat_message returns as content when the backend raised:
\* its apology followed by the text of the exception
BackendFailureContent == "Sorry, I couldn't process that request. <exception>"

LastSent(c) == sent'[c][Len(sent'[c])]

FixedApology == "Sorry, I couldn't process that request. Please try again."

\* the contents with which the server reports that processing failed
FailureContents == {FixedApology, BackendFailureContent}

\* C15: every recipe_update that reports a failure has one and the same
\* content, the fixed apology, with no text of the exception in it.
C15_FixedApology ==
    \A c \in conns : \A k \in DOMAIN sent[c] :
        sent[c][k].content \in FailureContents => sent[c][k].content = FixedApology

\* C16: an apology the read loop sends for a frame carries that frame's id
\* as request_id.
C16_ApologyTagged ==
    [][ \A c \in conns :
          ( /\ LoopTakes(c)
            /\ Head(inbox[c]).kind = "object"
            /\ sent'[c] # sent[c]
            /\ LastSent(c).content = FixedApology ) =>
              LastSent(c).request_id = Head(inbox[c]).id
      ]_vars

\* C17: every envelope the server has sent on any connection has type
\* recipe_update or auth_required; none has type error.
C17_OnlyTwoEnvelopeTypes ==
    \A c \in conns : \A k \in DOMAIN sent[c] :
        sent[c][k].type \in {"recipe_update", "auth_required"}

C17_Witness ==
    \E c \in conns :
        /\ \E k \in DOMAIN sent[c] : sent[c][k].content = FixedApology
        /\ \E k \in DOMAIN sent[c] : sent[c][k].content = BackendFailureContent

\* the frame passed the size check and the rate limiter and is dispatched
Dispatched(c) ==
    /\ Head(inbox[c]).kind = "object"
    /\ CheckMessageSize(DumpedBytes(Head(inbox[c]).body))
    /\ RateAdmits(Window(c), now)

\* the token of the auth envelope decodes and is_token_expired is false
ReauthTokenGood(c) ==
    /\ Head(inbox[c]).wellformed
    /\ Head(inbox[c]).token # ""
    /\ DecodeOk(Head(inbox[c]).token, now)
    /\ ~IsTokenExpired(PayloadExp(Head(inbox[c]).token), now)

\* C18: when the read loop dispatches an auth envelope whose token is valid
\* and not expired, the connection stays in the loop with no close frame and
\* no envelope sent, the monitor that was running is cancelled (it is no
\* longer sleeping or waiting), and the connection's monitor is a new task
\* for the new token's expiry, sleeping until 60 s before it.
C18_ReauthReplacesMonitor ==
    [][ \A c \in conns :
          (LoopTakes(c) /\ Dispatched(c) /\ Head(inbox[c]).type = "auth"
             /\ ReauthTokenGood(c))
          => LET exp == PayloadExp(Head(inbox[c]).token)
                 old == replaced'[c][Len(replaced'[c])]
             IN  /\ pc'[c] = "loop"
                 /\ closes'[c] = closes[c]
                 /\ sent'[c] = sent[c]
                 /\ Len(replaced'[c]) = Len(replaced[c]) + 1
                 /\ old.exp = mon[c].exp
                 /\ old.st \notin {"sleep", "wait"}
                 /\ mon[c].st \in {"sleep", "wait"} => old.st = "cancelled"
                 /\ mon'[c].exp = exp
                 /\ IF exp - now > WARN_BEFORE
                    THEN mon'[c].st = "sleep" /\ mon'[c].deadline = exp - WARN_BEFORE
                    ELSE mon'[c].st = "done"
      ]_vars

C18_Witness ==
    \E c \in conns :
        /\ pc[c] = "loop"
        /\ closes[c] = <<>>
        /\ Len(sent[c]) = 1
        /\ Len(recvAt[c]) = 2
        /\ Len(replaced[c]) = 1
        /\ replaced[c][1].st = "cancelled"
        /\ mon[c].st = "sleep"
        /\ mon[c].exp # replaced[c][1].exp

\* C19: when the read loop dispatches an auth envelope whose token is
\* missing, malformed, invalid or expired, the step closes the connection
\* with 1008 "Invalid or expired token", sends nothing, leaves the loop and
\* does not replace the monitor.
C19_BadReauthCloses ==
    [][ \A c \in conns :
          (LoopTakes(c) /\ Dispatched(c) /\ Head(inbox[c]).type = "auth"
             /\ ~ReauthTokenGood(c) /\ CanSend(c))
          => /\ closes'[c] = Append(closes[c],
                   CloseFrame(WS_1008_POLICY_VIOLATION, "Invalid or expired token", now))
             /\ sent'[c] = sent[c]
             /\ pc'[c] # "loop"
             /\ replaced'[c] = replaced[c]
      ]_vars

\* the monitor tasks of a connection that can still run: the task
\* monitoring_task refers to and the tasks it referred to before
MonitorTasks(c) == <<mon[c]>> \o replaced[c]
ActiveMonitors(c) ==
    {k \in DOMAIN MonitorTasks(c) : MonitorTasks(c)[k].st \in {"sleep", "wait"}}

MonitorReasons == {"Re-authentication timeout", "Expected auth message"}

\* C20: at most one monitor task of a connection is sleeping or waiting at
\* any time; a task replaced by re-authentication is never active again; an
\* auth_required or a monitor's close is only ever produced by the one
\* running task (a re-auth the monitor accepts in its own handshake continues
\* in that same task); and a cancelled task never changes again.
C20_AtMostOneMonitor ==
    /\ [](\A c \in conns :
            /\ Cardinality(ActiveMonitors(c)) <= 1
            /\ \A k \in DOMAIN replaced[c] : replaced[c][k].st \notin {"sleep", "wait"})
    /\ [][ \A c \in conns :
             /\ (sent'[c] # sent[c] /\ LastSent(c).type = "auth_required")
                  => mon[c].st = "sleep" /\ replaced'[c] = replaced[c]
             /\ (closes'[c] # closes[c]
                   /\ closes'[c][Len(closes'[c])].reason \in MonitorReasons)
                  => mon[c].st = "wait" /\ replaced'[c] = replaced[c]
             /\ mon[c].st = "cancelled" => mon'[c] = mon[c]
       ]_vars

C20_Witness ==
    \E c \in conns :
        /\ Len(replaced[c]) = 1
        /\ replaced[c][1].st = "cancelled"
        /\ mon[c].st = "wait"
        /\ sent[c][Len(sent[c])].type = "auth_required"

\* a monitor starts for c in this step: at authentication, at a re-auth the
\* read loop accepts, or at a re-auth the monitor's handshake accepts
MonitorStarts(c) ==
    \/ mon[c].st = "none" /\ mon'[c].st # "none"
    \/ replaced'[c] # replaced[c]
    \/ mon[c].st = "wait" /\ (mon'[c].st = "sleep" \/ mon'[c].exp # mon[c].exp)

\* C21: a monitor started with expiry E is set to send auth_required at
\* E - 60, also when E - 60 is already past (it is then due at once and the
\* task does not end without sending); a sleeping monitor is woken before
\* the clock passes its wake time, and waking sends auth_required.
C21_WarnSixtyBeforeExpiry ==
    /\ [][ \A c \in conns :
             /\ MonitorStarts(c)
                  => /\ mon'[c].st = "sleep"
                     /\ mon'[c].deadline = mon'[c].exp - WARN_BEFORE
             /\ (mon[c].st = "sleep" /\ mon'[c].st # "sleep" /\ CanSend(c)
                   /\ pc'[c] = pc[c] /\ replaced'[c] = replaced[c])
                  => /\ now = mon[c].exp - WARN_BEFORE
                     /\ sent'[c] = Append(sent[c], AuthRequired)
       ]_vars
    /\ [](\A c \in conns : mon[c].st = "sleep" => now <= mon[c].deadline)

\* the monitor's handshake receive_json takes the waiting frame
HandshakeTakes(c) ==
    /\ mon[c].st = "wait"
    /\ ~ServerClosed(c)
    /\ inbox[c] # <<>>
    /\ inbox'[c] = Tail(inbox[c])
    /\ mon'[c] # mon[c]
    /\ replaced'[c] = replaced[c]
    /\ pc'[c] = pc[c]

\* the handshake's wait_for ends with no frame taken
HandshakeExpires(c) ==
    /\ mon[c].st = "wait"
    /\ mon'[c].st # "wait"
    /\ inbox'[c] = inbox[c]
    /\ replaced'[c] = replaced[c]
    /\ pc'[c] = pc[c]

ClosedWith(c, reason) ==
    closes'[c] = Append(closes[c], CloseFrame(WS_1008_POLICY_VIOLATION, reason, now))

\* C22: once auth_required is sent the handshake ends in a close unless a
\* valid auth arrives: 30 s without one closes with "Re-authentication
\* timeout"; an envelope of another type taken by the handshake closes with
\* "Expected auth message"; an auth envelope that is malformed or whose
\* token is missing, invalid or expired closes with "Invalid token".
C22_HandshakeFailureCloses ==
    /\ [][ \A c \in conns :
             /\ (HandshakeExpires(c) /\ CanSend(c))
                  => /\ now = mon[c].deadline
                     /\ ClosedWith(c, "Re-authentication timeout")
             /\ (HandshakeTakes(c) /\ CanSend(c) /\ Head(inbox[c]).kind = "object"
                   /\ Head(inbox[c]).type # "auth")
                  => ClosedWith(c, "Expected auth message")
             /\ (HandshakeTakes(c) /\ CanSend(c) /\ Head(inbox[c]).kind = "object"
                   /\ Head(inbox[c]).type = "auth" /\ ~ReauthTokenGood(c))
                  => ClosedWith(c, "Invalid token")
       ]_vars
    /\ [](\A c \in conns : mon[c].st = "wait" => now <= mon[c].deadline)

\* the envelope some task of c takes in this step
Taking(c) == Head(inbox[c])
SomeTaskTakes(c) == (LoopTakes(c) /\ Dispatched(c)) \/ HandshakeTakes(c)

AuthRequiredCount(c) ==
    Cardinality({k \in DOMAIN sent[c] : sent[c][k].type = "auth_required"})

\* c has re-authenticated after an auth_required: only a monitor started by
\* a re-auth sends the second auth_required of a connection
ReauthedAfterWarning(c) == AuthRequiredCount(c) >= 2

\* C23: a valid auth envelope taken, by the read loop or by the handshake,
\* while the re-auth deadline is running keeps the connection open and leaves
\* a monitor running (sleeping) against the new expiry; and a chat_message
\* with content that arrives after such a re-authentication is taken up for
\* processing, whichever task receives it.
C23_ReauthInTimeKeepsOpen ==
    [][ \A c \in conns :
          /\ (mon[c].st = "wait" /\ now <= mon[c].deadline /\ SomeTaskTakes(c)
                /\ Taking(c).kind = "object" /\ Taking(c).type = "auth"
                /\ ReauthTokenGood(c))
               => /\ closes'[c] = closes[c]
                  /\ pc'[c] = pc[c]
                  /\ mon'[c].exp = PayloadExp(Taking(c).token)
                  /\ mon'[c].st = "sleep"
          /\ (ReauthedAfterWarning(c) /\ CanSend(c) /\ SomeTaskTakes(c)
                /\ Taking(c).kind = "object" /\ Taking(c).type = "chat_message"
                /\ Taking(c).wellformed /\ Taking(c).content # <<>>)
               => /\ closes'[c] = closes[c]
                  /\ pc'[c] = "processing"
                  /\ cur'[c] = Taking(c)
      ]_vars

\* C24: while the re-auth deadline is running (auth_required sent, no
\* re-auth yet), a chat_message with content that any task of the
\* connection receives is taken up for processing by the read loop, with no
\* close frame, and the monitor keeps waiting with its deadline unchanged.
C24_ChatDuringReauthWindow ==
    [][ \A c \in conns :
          (mon[c].st = "wait" /\ now <= mon[c].deadline /\ CanSend(c)
             /\ SomeTaskTakes(c)
             /\ Taking(c).kind = "object" /\ Taking(c).type = "chat_message"
             /\ Taking(c).wellformed /\ Taking(c).content # <<>>)
          => /\ closes'[c] = closes[c]
             /\ pc'[c] = "processing"
             /\ cur'[c] = Taking(c)
             /\ mon'[c] = mon[c]
      ]_vars

ConnectedText == "Connected to recipe chat. How can I help you with this recipe?"
Greetings(c) == {k \in DOMAIN sent[c] : sent[c][k].content = ConnectedText}

\* C25: the step that completes an authentication (the handler enters the
\* read loop) sends, as the connection's first envelope, one recipe_update
\* with request_id null and the "Connected to recipe chat." text, whose
\* recipe_data is the stored data when the recipe has ingredients and null
\* otherwise; no other step sends that envelope, so an authenticated
\* connection has been sent exactly one.
C25_InitialUpdate ==
    /\ [][ \A c \in conns :
             /\ (pc[c] = "auth_wait" /\ pc'[c] = "loop")
                  => /\ sent[c] = <<>>
                     /\ Len(sent'[c]) = 1
                     /\ sent'[c][1].type = "recipe_update"
                     /\ sent'[c][1].request_id = 0
                     /\ sent'[c][1].content = ConnectedText
                     /\ sent'[c][1].recipe_data =
                           IF recipe.has_ingredients THEN "data" ELSE "null"
             /\ pc[c] # "auth_wait" => Greetings(c)' = Greetings(c)
       ]_vars
    /\ [](\A c \in conns :
            /\ Cardinality(Greetings(c)) <= 1
            /\ pc[c] \in {"loop", "processing"} => Greetings(c) = {1}
            /\ c \in DOMAIN active_connections /\ CanSend(c) => Greetings(c) = {1})

C25_Witness ==
    \E c \in conns :
        /\ pc[c] = "loop"
        /\ Len(sent[c]) = 1
        /\ sent[c][1].recipe_data = "data"
        /\ sent[c][1].request_id = 0
        /\ recipe.has_ingredients /\ recipe.version = 0

\* an envelope the dispatch has no branch for, or a chat_message without text
Ignorable(f) ==
    /\ f.kind = "object"
    /\ \/ f.type \notin {"auth", "chat_message"}
       \/ f.type = "chat_message" /\ f.wellformed /\ f.content = <<>>

RuleOrderRoute(txt, has_ingredients) ==
    IF TextMatch(txt) THEN "extract"
    ELSE IF HasAny(txt, CreateKeywords) THEN "create"
    ELSE IF has_ingredients /\ HasAny(txt, ModifyKeywords) THEN "modify"
    ELSE IF has_ingredients /\ HasAny(txt, SuggestKeywords) THEN "suggest"
    ELSE "help"

\* what a route answers when the generation backend does not fail
RouteContent(route) == IF route = "suggest" THEN "suggestions" ELSE route

\* C27: for every text and recipe state, the answer process_chat_message
\* gives (the backend not failing) is that of the first of the five rules
\* that matches; a text that does not match the pattern of rule 1 is still
\* tried against rules 2 to 4.
C27_FirstMatchingRule ==
    [][ \A c \in conns :
          (pc[c] = "processing" /\ pc'[c] = "loop" /\ sent'[c] # sent[c]
             /\ LastSent(c).content # BackendFailureContent)
          => LastSent(c).content =
                RouteContent(RuleOrderRoute(cur[c].content, recipe.has_ingredients))
      ]_vars

\* C28: every auth_required envelope the server has sent, by the expiry
\* monitor or by the sweep _check_token_expiry, has the payload
\* {reason: "Token expiring soon"}.
C28_AuthRequiredShape ==
    \A c \in conns : \A k \in DOMAIN sent[c] :
        sent[c][k].type = "auth_required"
        => sent[c][k].key = "reason" /\ sent[c][k].content = "Token expiring soon"

\* C29: an envelope of more than 64 KiB that the read loop takes closes the
\* connection with 1009 "Message too large" in that step, whatever the rate
\* window holds (30 timestamps included), and the rate window is left as it
\* was.
C29_SizeBeforeRate ==
    [][ \A c \in conns :
          (LoopTakes(c) /\ Taking(c).kind = "object" /\ CanSend(c)
             /\ WireBytes(Taking(c).body) > MAX_MESSAGE_SIZE)
          => /\ closes'[c] = Append(closes[c],
                   CloseFrame(WS_1009_TOO_LARGE, "Message too large", now))
             /\ message_counts' = message_counts
      ]_vars

\* the one socket of the lifecycle scenario
LifecycleConns == {1}

\* asyncio runs every task that is ready: a handler whose receive_json can
\* return gets the frame, process_chat_message returns, and the finally
\* block runs.  Nothing is assumed of the client or of the clock.
SpecLive ==
    /\ Init
    /\ [][Next]_vars
    /\ \A c \in LifecycleConns :
          WF_vars(LoopRecv(c)) /\ WF_vars(ProcessDone(c)) /\ WF_vars(Finally(c))

\* the close frame of c was sent by its expiry monitor
MonitorClosed(c) ==
    /\ closes[c] # <<>>
    /\ AuthRequiredCount(c) >= 1
    /\ closes[c][1].reason \in MonitorReasons \cup {"Invalid token"}

TornDown(c) == pc[c] = "done" /\ c \notin RegistryIds

\* C30: once the expiry monitor has closed a connection, the handler of the
\* connection ends and the connection is out of the registry, its rate
\* window included, with no further step of the client.
C30_MonitorCloseTearsDown ==
    \A c \in LifecycleConns : MonitorClosed(c) ~> TornDown(c)

C30_Witness ==
    \E c \in conns :
        /\ MonitorClosed(c)
        /\ closes[c][1].reason = "Re-authentication timeout"
        /\ TornDown(c)
        /\ inbox[c] = <<>> /\ ~clientGone[c]

\* C31: answering a message by the advisory mode (rule 4) or by the help
\* message (rule 5) leaves the recipe as it was: the object's data and update
\* time and the stored row are unchanged, whatever the backend does; the
\* advisory answer carries the recipe data.
C31_AdvisoryAndHelpReadOnly ==
    [][ \A c \in conns :
          (pc[c] = "processing" /\ pc'[c] # "processing" /\ ~recipe.expired
             /\ Route(cur[c].content, recipe.has_ingredients) \in {"suggest", "help"})
          => /\ recipe' = recipe
             /\ (sent'[c] # sent[c] /\ LastSent(c).content = "suggestions")
                  => LastSent(c).recipe_data = "data" /\ recipe.has_ingredients
      ]_vars

C31_Witness ==
    \E c \in conns :
        /\ Len(sent[c]) = 2
        /\ sent[c][2].content = "suggestions"
        /\ sent[c][2].recipe_data = "data"
        /\ recipe = Recipe(TRUE)

\* the example commands quoted by the two help messages (lines 258-271),
\* as word sequences, with the recipe state the message is shown in and
\* the action the message names
HelpExamples ==
    {[text |-> <<"create", "x">>,    has_ingredients |-> FALSE, action |-> "create"],
     [text |-> <<"copy", ":", "x">>, has_ingredients |-> FALSE, action |-> "extract"],
     [text |-> <<"make it", "x">>,   has_ingredients |-> TRUE,  action |-> "modify"],
     [text |-> <<"tip", "x">>,       has_ingredients |-> TRUE,  action |-> "suggest"]}

\* C32: each example command of the help messages, sent in the recipe
\* state the message is shown in, is answered by the action the message
\* names (the backend not failing): "Create ..." by generation and
\* "Extract recipe from: ..." by extraction on an empty recipe, "Make it
\* vegetarian" by modification and "Suggest ..." by the advisory mode on a
\* recipe with ingredients.
C32_HelpExamplesRouted ==
    [][ \A c \in conns : \A ex \in HelpExamples :
          (pc[c] = "processing" /\ pc'[c] = "loop" /\ sent'[c] # sent[c]
             /\ cur[c].content = ex.text
             /\ recipe.has_ingredients = ex.has_ingredients
             /\ LastSent(c).content # BackendFailureContent)
          => LastSent(c).content = RouteContent(ex.action)
      ]_vars

(***************************************************************************)
(* Time passing on a connection that no timer watches.  The clock may      *)
(* always advance up to the next pending deadline; this step takes it just *)
(* past the expiry of the connection's current token (the exp the last     *)
(* monitor was started with) when no timer is due before.                  *)
(***************************************************************************)
CurrentExp(c) == mon[c].exp
Connected(c) == pc[c] \in {"loop", "processing"}

TickPastExpiry(c) ==
    /\ c \in conns
    /\ Connected(c)
    /\ ~TimerDue
    /\ CurrentExp(c) >= 0
    /\ now <= CurrentExp(c)
    /\ CurrentExp(c) + 1 <= MaxTime
    /\ \A d \in PendingDeadlines : d > CurrentExp(c)
    /\ now' = CurrentExp(c) + 1
    /\ UNCHANGED <<scenario, conns, pc, acceptTime, inbox, clientGone, nframes, closes, sent,
                   mon, active_connections, user_connections, message_counts, cur,
                   lastMsgId, client_id, recipe, first, recvAt, raised, rlLog, replaced>>

NextExpiry == Next \/ \E c \in AllConns : TickPastExpiry(c)

\* asyncio runs every task that is ready and every timer that is due fires:
\* the handler and the monitor take their steps, and the clock reaches the
\* pending deadlines.  Nothing is assumed of the client.
SpecExpiry ==
    /\ Init
    /\ [][NextExpiry]_vars
    /\ WF_vars(Tick)
    /\ \A c \in LifecycleConns :
          /\ WF_vars(LoopRecv(c)) /\ WF_vars(ProcessDone(c)) /\ WF_vars(Finally(c))
          /\ WF_vars(MonitorWake(c)) /\ WF_vars(MonitorRecv(c))
          /\ WF_vars(MonitorTimeout(c))

\* the token of the connection has expired and the connection is open
OpenPastExpiry(c) ==
    Connected(c) /\ CurrentExp(c) >= 0 /\ IsTokenExpired(CurrentExp(c), now)

\* C33: a connection in Connected whose current token has expired is
\* eventually closed by the server (or the client has left): no connection
\* stays open for ever past the expiry of its token.
C33_ExpiredEventuallyClosed ==
    \A c \in LifecycleConns : OpenPastExpiry(c) ~> (ServerClosed(c) \/ clientGone[c])

\* a re-authentication is accepted in this step: the read loop replaces the
\* monitor, or the handshake goes on with the new token
ReauthAccepted(c) ==
    /\ inbox[c] # <<>>
    /\ Taking(c).kind = "object" /\ Taking(c).type = "auth"
    /\ \/ LoopTakes(c) /\ Dispatched(c) /\ replaced'[c] # replaced[c]
       \/ /\ HandshakeTakes(c)
          /\ Taking(c).wellformed /\ Taking(c).token # ""
          /\ closes'[c] = closes[c]

\* C34: a re-authentication is accepted, by the read loop or by the
\* handshake, only when the subject of the new token is the subject the
\* connection authenticated as, and it leaves the connection's registry
\* entry and the recipe as they were.
C34_ReauthSameSubject ==
    [][ \A c \in conns :
          ReauthAccepted(c)
          => /\ c \in DOMAIN active_connections
             /\ TokSub(Taking(c).token) = active_connections[c].user_id
             /\ active_connections' = active_connections
             /\ user_connections' = user_connections
             /\ recipe' = recipe
      ]_vars

\* the envelope taken in this step went through the size check and the rate
\* limiter: over the size limit it is refused with 1009 and has no other
\* effect; otherwise the limiter's call is made and the envelope is counted
\* in the window when admitted
SizeAndRateChecked(c) ==
    IF ~CheckMessageSize(DumpedBytes(Taking(c).body))
    THEN /\ CanSend(c) => closes'[c] = Append(closes[c],
                 CloseFrame(WS_1009_TOO_LARGE, "Message too large", now))
         /\ sent'[c] = sent[c] /\ mon'[c] = mon[c]
    ELSE /\ c \in DOMAIN message_counts'
         /\ message_counts'[c] = RateWindowAfter(Window(c), now)
         /\ rlLog' = Append(rlLog, [t |-> now, ok |-> RateAdmits(Window(c), now)])
         /\ (~RateAdmits(Window(c), now) /\ CanSend(c))
              => closes'[c] = Append(closes[c],
                    CloseFrame(WS_1008_POLICY_VIOLATION, "Rate limit exceeded", now))

\* C35: every envelope taken from a connection in Connected, by the read
\* loop or by the re-authentication handshake, goes through the size check
\* and the rate limiter and is counted in the connection's rate window in
\* the step that takes it.
C35_EveryEnvelopeChecked ==
    [][ \A c \in conns :
          ((LoopTakes(c) \/ HandshakeTakes(c)) /\ Taking(c).kind = "object")
          => SizeAndRateChecked(c)
      ]_vars

\* the handler of c calls websocket.close or send_json in this step and the
\* call raises because the socket is closed
FailedCall(c) == raised'[c] # raised[c] /\ raised'[c] \in {"close", "send"}

\* C36: once the server has sent a close frame on a connection, by the read
\* loop or by the expiry monitor, nothing more is sent on it, no task calls
\* send or close on it again, and no frame of it is taken and dispatched;
\* also when the close frame went out while process_chat_message was
\* running.
C36_ClosedIsTerminal ==
    [][ \A c \in conns :
          ServerClosed(c)
          => /\ sent'[c] = sent[c]
             /\ closes'[c] = closes[c]
             /\ ~FailedCall(c)
             /\ rlLog' = rlLog
             /\ lastMsgId'[c] = lastMsgId[c]
             /\ replaced'[c] = replaced[c]
             /\ pc'[c] # "processing" \/ pc[c] = "processing"
      ]_vars

\* C37: on every connection the first envelope the server has sent is the
\* greeting (a recipe_update with request_id null and the "Connected to
\* recipe chat." text): no auth_required, of the monitor or of the sweep, and
\* no answer to a chat_message goes out before it, also for a token accepted
\* 65 s or less before its expiry.
C37_GreetingFirst ==
    \A c \in conns :
        sent[c] # <<>>
        => /\ sent[c][1].type = "recipe_update"
           /\ sent[c][1].request_id = 0
           /\ sent[c][1].content = ConnectedText
           /\ \A k \in DOMAIN sent[c] :
                 (sent[c][k].type = "auth_required" \/ sent[c][k].request_id # 0) => k > 1

C37_Witness ==
    \E c \in conns :
        /\ c \in DOMAIN active_connections
        /\ active_connections[c].token_exp - active_connections[c].auth_time
              <= WARN_BEFORE + AUTH_TIMEOUT
        /\ Len(sent[c]) = 3
        /\ sent[c][1].content = ConnectedText
        /\ sent[c][2].type = "auth_required"
        /\ sent[c][3].request_id # 0

\* C38: the three maps of the registry agree in every state: the ids in the
\* user_connections sets are the keys of active_connections, which are the
\* keys of message_counts; an id is in the set of a subject exactly when
\* that subject is the user_id of its active_connections entry; and no
\* subject is mapped to the empty set.
C38_RegistryMapsAgree ==
    /\ UNION {user_connections[u] : u \in DOMAIN user_connections} = DOMAIN active_connections
    /\ DOMAIN active_connections = DOMAIN message_counts
    /\ \A c \in DOMAIN active_connections : \A u \in DOMAIN user_connections :
          c \in user_connections[u] <=> u = active_connections[c].user_id
    /\ \A u \in DOMAIN user_connections : user_connections[u] # {}

\* all six sockets have been registered at some time: one of the first five
\* left and was removed, and the sixth took its place
C38_Witness ==
    /\ Cardinality(DOMAIN active_connections) = MAX_CONNECTIONS_PER_USER
    /\ DOMAIN message_counts = DOMAIN active_connections
    /\ \E c \in conns :
          /\ pc[c] = "done" /\ client_id[c] /\ closes[c] = <<>>
          /\ c \notin RegistryIds
          /\ user_connections["u1"] = conns \ {c}

\* C39: when process_chat_message fails (its answer is the failure text:
\* the backend raised, its output was invalid, or the commit raised) the
\* recipe is as before the message: the stored row and the object the
\* handler routes the next messages with.
C39_FailureLeavesRecipe ==
    [][ \A c \in conns :
          (pc[c] = "processing" /\ pc'[c] = "loop" /\ sent'[c] # sent[c]
             /\ LastSent(c).content = BackendFailureContent)
          => recipe' = recipe
      ]_vars

\* manager.connect refused c at the cap
Refused(c) == closes[c] # <<>> /\ closes[c][1].reason = "Connection limit exceeded"

\* C40: the step in which a registration is refused at the cap, and the
\* teardown of the refused connection, leave the three maps of the registry
\* as they were: the five registered connections stay registered with
\* their rate windows, and the refused connection is in no map.
C40_RefusalChangesNothing ==
    /\ [][ \A c \in conns :
             /\ ((pc[c] = "auth_wait" /\ Refused(c)') \/ (Refused(c) /\ pc'[c] # pc[c]))
                  => /\ active_connections' = active_connections
                     /\ user_connections' = user_connections
                     /\ message_counts' = message_counts
             /\ (pc[c] = "auth_wait" /\ Refused(c)')
                  => /\ Cardinality(DOMAIN active_connections') = MAX_CONNECTIONS_PER_USER
                     /\ Cardinality(user_connections'["u1"]) = MAX_CONNECTIONS_PER_USER
                     /\ DOMAIN message_counts' = DOMAIN active_connections'
       ]_vars
    /\ [](\A c \in conns : Refused(c) => c \notin RegistryIds)

\* the sixth connection was refused and torn down, the five others are
\* still registered
C40_Witness ==
    \E c \in conns :
        /\ Refused(c) /\ pc[c] = "done" /\ client_id[c]
        /\ DOMAIN active_connections = conns \ {c}
        /\ DOMAIN message_counts = conns \ {c}
        /\ user_connections["u1"] = conns \ {c}

====
